---- MODULE Spec2Model ----
(***************************************************************************)
(* A model of langchain_wenxin.client.WenxinClient: the access-token       *)
(* cache, the completion / embedding calls and the two stream framers.     *)
(***************************************************************************)
EXTENDS Integers, Sequences, FiniteSets, TLC

\* ------------------------------------------------------------------ bounds
\* construct_message is applied to histories of at most MaxHist pairs
MaxHist == 3
\* int(time.time()) ranges over 1..MaxTime
MaxTime == 3
\* at most MaxGrants credential-grant requests are issued in one behaviour
MaxGrants == 3
\* the provider answers expires_in in 1..MaxExpiresIn
MaxExpiresIn == 2
\* a streamed body holds at most MaxFrames terminated frames
MaxFrames == 2
\* the chunks of a body are counted up to MaxChunksCounted
MaxChunksCounted == 4

\* ------------------------------------------------------------ token values
Tokens == {"tokA", "tokB"}
Tasks == {"t1", "t2"}
NoValue == "<none>"

VARIABLES
  access_token,          \* self.access_token
  access_token_expires,  \* self.access_token_expires
  clock,                 \* int(time.time())
  grant_calls,           \* number of GETs sent to WENXIN_TOKEN_URL
  call,                  \* the get-token call that returned most recently
  task,                  \* per task: position and locals of a suspended get-token call
  op                     \* the caller's current completion / embed operation

tokenVars == <<access_token, access_token_expires, clock, grant_calls>>
vars == <<access_token, access_token_expires, clock, grant_calls, call, task, op>>

\* ------------------------------------------------------- the token manager
\* The JSON bodies the grant endpoint may answer with.
GrantBodies ==
  {[access_token |-> a, expires_in |-> e] : a \in Tokens, e \in 1..MaxExpiresIn}
    \cup {[access_token |-> a] : a \in Tokens}
    \cup {[expires_in |-> 1]}
    \cup {[error |-> "invalid_client"]}

\* a 3xx answer that is no redirect to follow is handed to the caller as it
\* is, with whatever body it has
GrantResponses ==
  {[status |-> 200, body |-> b] : b \in GrantBodies}
    \cup {[status |-> 401, body |-> [error |-> "invalid_client"]],
          [status |-> 300, body |-> [access_token |-> "tokB", expires_in |-> 1]]}

WellFormed(r) ==
  /\ r.status < 400
  /\ "access_token" \in DOMAIN r.body
  /\ "expires_in" \in DOMAIN r.body

\* client errors let through
raise_for_status_5xx_only(r) == r.status >= 500

\* r.raise_for_status(): raises for a 4xx / 5xx status
raise_for_status(r) == r.status >= 400

\* the comparison of line 41 turned around
token_cached_inverted(tok, exp, now_timestamp) == tok # "" /\ now_timestamp > exp

\* `self.access_token and now_timestamp < self.access_token_expires`
token_cached(tok, exp, now_timestamp) == tok # "" /\ now_timestamp < exp

\* the expiry computed without now_timestamp
store_grant_response_no_now(tok, exp, now_timestamp, r) ==
  IF r.status >= 400 \/ "access_token" \notin DOMAIN r.body
    THEN [access_token |-> tok, access_token_expires |-> exp,
          ret |-> NoValue, raised |-> "HTTPError"]
  ELSE IF "expires_in" \notin DOMAIN r.body
    THEN [access_token |-> r.body.access_token, access_token_expires |-> exp,
          ret |-> NoValue, raised |-> "KeyError"]
  ELSE [access_token |-> r.body.access_token,
        access_token_expires |-> r.body.expires_in,
        ret |-> r.body.access_token, raised |-> ""]

\* a token that is valid when the response arrives is kept
store_grant_response_keep_valid(tok, exp, now_timestamp, r) ==
  IF tok # "" /\ now_timestamp < exp
    THEN [access_token |-> tok, access_token_expires |-> exp,
          ret |-> tok, raised |-> ""]
  ELSE IF r.status >= 400 \/ "access_token" \notin DOMAIN r.body
    THEN [access_token |-> tok, access_token_expires |-> exp,
          ret |-> NoValue, raised |-> "HTTPError"]
  ELSE IF "expires_in" \notin DOMAIN r.body
    THEN [access_token |-> r.body.access_token, access_token_expires |-> exp,
          ret |-> NoValue, raised |-> "KeyError"]
  ELSE [access_token |-> r.body.access_token,
        access_token_expires |-> now_timestamp + r.body.expires_in,
        ret |-> r.body.access_token, raised |-> ""]

\* The statements after the grant request: raise_for_status, r.json(), the two
\* assignments in program order, the return.  A KeyError of the second
\* subscript is raised after the first assignment has been made.
store_grant_response(tok, exp, now_timestamp, r) ==
  IF raise_for_status(r)
    THEN [access_token |-> tok, access_token_expires |-> exp,
          ret |-> NoValue, raised |-> "HTTPError"]
  ELSE IF "access_token" \notin DOMAIN r.body
    THEN [access_token |-> tok, access_token_expires |-> exp,
          ret |-> NoValue, raised |-> "KeyError"]
  ELSE IF "expires_in" \notin DOMAIN r.body
    THEN [access_token |-> r.body.access_token, access_token_expires |-> exp,
          ret |-> NoValue, raised |-> "KeyError"]
  ELSE [access_token |-> r.body.access_token,
        access_token_expires |-> now_timestamp + r.body.expires_in,
        ret |-> r.body.access_token, raised |-> ""]

NoResponse == [status |-> 0, body |-> [none |-> TRUE]]

\* what a finished call leaves behind for the next caller to compare with
Summary(c) == [op |-> c.op, ret |-> c.ret, raised |-> c.raised, grants |-> c.grants,
               cacheAtReturn |-> c.cacheAtReturn]

NoSummary == [op |-> "none", ret |-> NoValue, raised |-> "", grants |-> 0,
              cacheAtReturn |-> <<"", 0>>]
NoCall == [op |-> "none", cacheAtCall |-> <<"", 0>>, now_timestamp |-> 0, resp |-> NoResponse,
           ret |-> NoValue, raised |-> "", grants |-> 0, cacheAtStore |-> <<"", 0>>,
           cacheAtReturn |-> <<"", 0>>, prev |-> NoSummary]
Idle == [pc |-> "ready", now_timestamp |-> 0, cacheAtCall |-> <<"", 0>>,
         prev |-> NoSummary]

\* the cache fields after the statements of lines 53-57
StoreCache(o) ==
  /\ access_token' = o.access_token
  /\ access_token_expires' = o.access_token_expires

\* a get-token call answered from the cache (lines 41-42 and 62-63)
Cached(name) ==
  [op |-> name, cacheAtCall |-> <<access_token, access_token_expires>>,
   now_timestamp |-> clock, resp |-> NoResponse,
   ret |-> access_token, raised |-> "", grants |-> 0,
   cacheAtStore |-> <<access_token, access_token_expires>>,
   cacheAtReturn |-> <<access_token, access_token_expires>>, prev |-> Summary(call)]

\* a get-token call that sent one grant request and got the response r;
\* cacheAtStore is the cache as the statements after the request find it
Refreshed(name, cacheAtCall, now_timestamp, prev, r, o) ==
  [op |-> name, cacheAtCall |-> cacheAtCall, now_timestamp |-> now_timestamp, resp |-> r,
   ret |-> o.ret, raised |-> o.raised, grants |-> 1,
   cacheAtStore |-> <<access_token, access_token_expires>>,
   cacheAtReturn |-> <<o.access_token, o.access_token_expires>>, prev |-> prev]

\* grant_token(): the calling thread is blocked for the whole request, so the
\* call is one step
grant_token(t) ==
  /\ task[t].pc = "ready"
  /\ IF token_cached(access_token, access_token_expires, clock)
       THEN /\ call' = Cached("grant_token")
            /\ UNCHANGED tokenVars
       ELSE /\ grant_calls < MaxGrants
            /\ grant_calls' = grant_calls + 1
            /\ \E r \in GrantResponses :
                 LET o == store_grant_response(access_token, access_token_expires,
                                               clock, r)
                 IN /\ StoreCache(o)
                    /\ call' = Refreshed("grant_token",
                                         <<access_token, access_token_expires>>,
                                         clock, Summary(call), r, o)
            /\ UNCHANGED clock
  /\ UNCHANGED <<task, op>>

\* async_grant_token() up to its first suspension (lines 61-76): either the
\* cached token is returned at once, or the GET is sent and the task suspends
async_grant_token_call(t) ==
  /\ task[t].pc = "ready"
  /\ IF token_cached(access_token, access_token_expires, clock)
       THEN /\ call' = Cached("async_grant_token")
            /\ UNCHANGED <<tokenVars, task, op>>
       ELSE /\ grant_calls < MaxGrants
            /\ grant_calls' = grant_calls + 1
            /\ task' = [task EXCEPT ![t] =
                 [pc |-> "await", now_timestamp |-> clock,
                  cacheAtCall |-> <<access_token, access_token_expires>>,
                  prev |-> Summary(call)]]
            /\ UNCHANGED <<access_token, access_token_expires, clock, call, op>>

\* async_grant_token() resumed with the response (lines 77-82)
async_grant_token_resume(t) ==
  /\ task[t].pc = "await"
  /\ \E r \in GrantResponses :
       LET o == store_grant_response(access_token, access_token_expires,
                                     task[t].now_timestamp, r)
       IN /\ StoreCache(o)
          /\ call' = Refreshed("async_grant_token", task[t].cacheAtCall,
                               task[t].now_timestamp, task[t].prev, r, o)
  /\ task' = [task EXCEPT ![t] = Idle]
  /\ UNCHANGED <<clock, grant_calls, op>>

\* time passes
Tick ==
  /\ clock < MaxTime
  /\ clock' = clock + 1
  /\ UNCHANGED <<access_token, access_token_expires, grant_calls, call, task, op>>

\* ------------------------------------------------------------- requests
\* dict.get(key, default) and dict[key] = value
Get(d, k, default) == IF k \in DOMAIN d THEN d[k] ELSE default
Set(d, k, v) == [x \in DOMAIN d \cup {k} |-> IF x = k THEN v ELSE d[x]]
EmptyDict == [x \in {} |-> x]

\* batch_size_limit and chars_limit of embed()
batch_size_limit == 16
chars_limit == 384

\* the second alias of the fast tier forgotten
completions_url_one_alias(model) ==
  LET endpoint == IF model = "eb-instant" THEN "eb-instant"
                  ELSE IF model \in {"wenxin", "ernie-bot"} THEN "completions"
                  ELSE model
  IN [url |-> "WENXIN_CHAT_URL", endpoint |-> endpoint]

\* completions_url(model), as the endpoint segment put into WENXIN_CHAT_URL
completions_url(model) ==
  LET endpoint == IF model \in {"eb-instant", "ernie-bot-turbo"} THEN "eb-instant"
                  ELSE IF model \in {"wenxin", "ernie-bot"} THEN "completions"
                  ELSE model
  IN [url |-> "WENXIN_CHAT_URL", endpoint |-> endpoint]

\* WENXIN_EMBEDDINGS_URL.format(model=model)
embeddings_url(model) == [url |-> "WENXIN_EMBEDDINGS_URL", endpoint |-> model]

\* the two appends of the loop body exchanged
RECURSIVE append_history_swapped(_, _)
append_history_swapped(messages, history) ==
  IF history = <<>> THEN messages
  ELSE append_history_swapped(
         Append(Append(messages, [role |-> "assistant", content |-> Head(history)[2]]),
                [role |-> "user", content |-> Head(history)[1]]),
         Tail(history))

\* the loop of construct_message over the history pairs
RECURSIVE append_history(_, _)
append_history(messages, history) ==
  IF history = <<>> THEN messages
  ELSE append_history(
         Append(Append(messages, [role |-> "user", content |-> Head(history)[1]]),
                [role |-> "assistant", content |-> Head(history)[2]]),
         Tail(history))

construct_message(prompt, history) ==
  Append(append_history(<<>>, history), [role |-> "user", content |-> prompt])

\* the exceptions an operation may raise
NoError == [type |-> "", error_code |-> 0, error_msg |-> ""]
Error(type) == [type |-> type, error_code |-> 0, error_msg |-> ""]

\* the error-envelope check with the code comparison dropped for codes that
\* carry no message
error_envelope_needs_msg(response) ==
  IF Get(response, "error_code", 0) # 0 /\ "error_msg" \in DOMAIN response
    THEN [type |-> "Exception", error_code |-> response.error_code,
          error_msg |-> response.error_msg]
    ELSE NoError

\* `error_code = response.get("error_code", 0); if error_code != 0: raise
\* Exception(f"... error_code: {error_code}, error_msg: {error_msg}")`
error_envelope(response) ==
  LET error_code == Get(response, "error_code", 0)
  IN IF error_code # 0
       THEN [type |-> "Exception", error_code |-> error_code,
             error_msg |-> Get(response, "error_msg", "Unknown error")]
       ELSE NoError

\* the statements after a non-streaming POST: raise_for_status(), r.json(),
\* the error-envelope check, return response
handle_response(r) ==
  IF raise_for_status(r)
    THEN [outcome |-> "raised", value |-> <<>>, error |-> Error("HTTPError")]
  ELSE IF r.body = <<>>
    THEN [outcome |-> "raised", value |-> <<>>, error |-> Error("JSONDecodeError")]
  ELSE LET response == r.body[1]
           e == error_envelope(response)
       IN IF e.type # ""
            THEN [outcome |-> "raised", value |-> <<>>, error |-> e]
            ELSE [outcome |-> "returned", value |-> <<response>>, error |-> NoError]

\* t[:n] taken where t[-n:] is meant
LastChars_from_start(t, n) == IF Len(t) <= n THEN t ELSE SubSeq(t, 1, n)

\* t[-n:] and t[:n] of a Python sequence, n > 0
LastChars(t, n) == IF Len(t) <= n THEN t ELSE SubSeq(t, Len(t) - n + 1, Len(t))
FirstChars(t, n) == IF Len(t) <= n THEN t ELSE SubSeq(t, 1, n)

\* the loop of embed() over texts (lines 259-269): the sentences, or the
\* ValueError raised at the first text that is too long
RECURSIVE embed_sentences(_, _, _)
embed_sentences(sentences, texts, truncate) ==
  IF texts = <<>> THEN [raised |-> FALSE, sentences |-> sentences]
  ELSE LET t == Head(texts)
       IN IF truncate = "START"
            THEN embed_sentences(Append(sentences, LastChars(t, chars_limit)),
                                 Tail(texts), truncate)
          ELSE IF truncate = "END"
            THEN embed_sentences(Append(sentences, FirstChars(t, chars_limit)),
                                 Tail(texts), truncate)
          ELSE IF Len(t) > chars_limit
            THEN [raised |-> TRUE, sentences |-> sentences]
          ELSE embed_sentences(Append(sentences, t), Tail(texts), truncate)

\* the payload built without the batch size check
embed_payload_any_size(texts, truncate) ==
  LET e == embed_sentences(<<>>, texts, truncate)
  IN IF e.raised THEN [raised |-> TRUE, payload |-> EmptyDict]
     ELSE [raised |-> FALSE, payload |-> [input |-> e.sentences]]

\* lines 254-272: the payload, or the ValueError
embed_payload(texts, truncate) ==
  IF Len(texts) > batch_size_limit
    THEN [raised |-> TRUE, payload |-> EmptyDict]
    ELSE LET e == embed_sentences(<<>>, texts, truncate)
         IN IF e.raised THEN [raised |-> TRUE, payload |-> EmptyDict]
            ELSE [raised |-> FALSE, payload |-> [input |-> e.sentences]]

\* the two keys written only when the caller has not supplied them
request_json_setdefault(params, prompt, history, stream) ==
  LET m == IF "messages" \in DOMAIN params THEN params
           ELSE Set(params, "messages", construct_message(prompt, history))
  IN IF "stream" \in DOMAIN m THEN m ELSE Set(m, "stream", stream)

\* `params["messages"] = self.construct_message(prompt, history);
\* params["stream"] = <stream>`: the dict posted as the JSON body
request_json(params, prompt, history, stream) ==
  Set(Set(params, "messages", construct_message(prompt, history)), "stream", stream)

\* ---- what the caller passes and what the provider answers
EmbedModels == {"embedding-v1"}
\* (model, prompt, history, **params) of a completion call
ChatArgs ==
  { [model |-> "ernie-bot", prompt |-> "p1", history |-> <<>>, params |-> EmptyDict],
    [model |-> "my-endpoint", prompt |-> "p1", history |-> << <<"h1", "a1">> >>,
     params |-> [temperature |-> 1, stream |-> TRUE]],
    [model |-> "eb-instant", prompt |-> "p2", history |-> << <<"h1", "a1">> >>,
     params |-> [top_p |-> 2, stream |-> FALSE, messages |-> <<"mine">>]] }

Envelopes ==
  { [result |-> "hi"],
    [result |-> "hi", error_code |-> 0],
    [error_code |-> 17, error_msg |-> "quota"],
    [error_code |-> 17] }

\* a response: status, Content-Type (the media type, then its parameters), the
\* JSON value of the body (none when the body is not one JSON value) and, for
\* an event stream, what the transport delivers of the body
JsonResponses ==
  {[status |-> 200, content_type |-> <<"application/json">>, body |-> <<e>>,
    stream |-> <<>>] : e \in Envelopes}
    \cup {[status |-> 200, content_type |-> <<"text/html">>, body |-> <<>>,
           stream |-> <<>>],
          [status |-> 500, content_type |-> <<"application/json">>,
           body |-> <<[error_code |-> 17]>>, stream |-> <<>>]}

Text(n) == [i \in 1..n |-> i % 5]
Rep(n, t) == [i \in 1..n |-> t]
EmbedBatches ==
  { <<>>, <<Text(1)>>, <<Text(chars_limit)>>, <<Text(chars_limit + 1)>>,
    <<Text(400)>>, <<Text(2), Text(chars_limit + 1)>>,
    <<Text(chars_limit + 1), Text(2)>>,
    Rep(batch_size_limit, Text(2)), Rep(batch_size_limit + 1, Text(2)),
    [Rep(batch_size_limit, Text(2)) EXCEPT ![batch_size_limit] = Text(chars_limit + 1)],
    [Rep(batch_size_limit + 1, Text(2)) EXCEPT ![1] = Text(400)] }
\* truncate: "START", "END", None, or a string embed() does not know
TruncateModes == {"START", "END", "None", "start"}

\* ---- the operation record
NoOp ==
  [name |-> "none", pc |-> "done", args |-> EmptyDict, net |-> <<>>, sent |-> <<>>,
   resp |-> <<>>, outcome |-> "none", value |-> <<>>, error |-> NoError,
   events |-> <<>>, data |-> <<>>, content |-> <<>>, conn |-> "none",
   chunks |-> 0, empty |-> FALSE, frames |-> <<>>, grant |-> <<>>,
   requests |-> 0, reads |-> 0]

StartOp(name, args) ==
  [NoOp EXCEPT !.name = name, !.args = args]

\* self.grant_token() / await self.async_grant_token() evaluated as the
\* argument of the POST: g is the grant endpoint's answer if it is asked
OpGrantResponses ==
  { [status |-> 200, body |-> [access_token |-> "tokA", expires_in |-> MaxExpiresIn]],
    [status |-> 200, body |-> [access_token |-> "tokB"]],
    [status |-> 401, body |-> [error |-> "invalid_client"]],
    [status |-> 300, body |-> [access_token |-> "tokB", expires_in |-> 1]] }

TokenResponses ==
  IF token_cached(access_token, access_token_expires, clock)
    THEN {NoResponse} ELSE OpGrantResponses

get_token(g) ==
  IF token_cached(access_token, access_token_expires, clock)
    THEN [access_token |-> access_token, access_token_expires |-> access_token_expires,
          ret |-> access_token, raised |-> "", net |-> <<>>]
    ELSE store_grant_response(access_token, access_token_expires, clock, g)
           @@ [net |-> <<"GET token">>]

\* the grant endpoint's answer, when get_token has asked it
Asked(tk, g) == IF tk.net = <<>> THEN <<>> ELSE <<g>>

\* the effect of get_token on the client
TokenEffect(tk) ==
  /\ tk.net # <<>> => grant_calls < MaxGrants
  /\ grant_calls' = grant_calls + Len(tk.net)
  /\ StoreCache(tk)
  /\ UNCHANGED <<clock, call, task>>

\* an operation may be started when the previous one is over
CanStart == op.pc = "done"

\* completion() and acompletion(): lines 104-122 and 136-159
CompletionCall(name) ==
  /\ CanStart
  /\ \E args \in ChatArgs, g \in TokenResponses, r \in JsonResponses :
       LET json == request_json(args.params, args.prompt, args.history, FALSE)
           url == completions_url(args.model)
           tk == get_token(g)
           o == [StartOp(name, args) EXCEPT !.grant = Asked(tk, g)]
       IN /\ TokenEffect(tk)
          /\ IF tk.raised # ""
               THEN op' = [o EXCEPT !.net = tk.net, !.outcome = "raised",
                                    !.error = Error(tk.raised)]
               ELSE LET h == handle_response(r)
                    IN op' = [o EXCEPT
                         !.net = Append(tk.net, "POST chat"),
                         !.sent = <<[url |-> url, access_token |-> tk.ret,
                                     json |-> json]>>,
                         !.resp = <<r>>, !.outcome = h.outcome, !.value = h.value,
                         !.error = h.error]

completion == CompletionCall("completion")
acompletion == CompletionCall("acompletion")

\* the model names completions_url is called with
UrlModels ==
  {"eb-instant", "ernie-bot-turbo", "wenxin", "ernie-bot", "completions",
   "my-endpoint", "ERNIE-Bot", ""}

\* client.completions_url(model) called on its own
call_completions_url ==
  /\ CanStart
  /\ \E model \in UrlModels :
       op' = [StartOp("completions_url", [model |-> model]) EXCEPT
                !.outcome = "returned", !.value = <<completions_url(model)>>]
  /\ UNCHANGED <<tokenVars, call, task>>

\* embed(): lines 253-287
EmbedCall(batches, modes) ==
  /\ CanStart
  /\ \E model \in EmbedModels, texts \in batches, truncate \in modes :
       LET p == embed_payload(texts, truncate)
           o == StartOp("embed", [model |-> model, texts |-> texts,
                                  truncate |-> truncate])
       IN IF p.raised
            THEN /\ op' = [o EXCEPT !.outcome = "raised", !.error = Error("ValueError")]
                 /\ UNCHANGED <<tokenVars, call, task>>
            ELSE \E g \in TokenResponses, r \in JsonResponses :
                   LET tk == get_token(g)
                   IN /\ TokenEffect(tk)
                      /\ IF tk.raised # ""
                           THEN op' = [o EXCEPT !.net = tk.net, !.outcome = "raised",
                                                !.error = Error(tk.raised),
                                                !.grant = Asked(tk, g)]
                           ELSE LET h == handle_response(r)
                                IN op' = [o EXCEPT
                                     !.grant = Asked(tk, g),
                                     !.net = Append(tk.net, "POST embeddings"),
                                     !.sent = <<[url |-> embeddings_url(model),
                                                 access_token |-> tk.ret,
                                                 json |-> p.payload]>>,
                                     !.resp = <<r>>, !.outcome = h.outcome,
                                     !.value = h.value, !.error = h.error]

embed == EmbedCall(EmbedBatches, TruncateModes)
\* embed() on two short batches
embed_short == EmbedCall({<<Text(1)>>, <<Text(2), Text(chars_limit + 1)>>}, {"None"})

\* ------------------------------------------------------------- streaming
\* Body bytes are sequences of symbols: single characters, and the text of one
\* JSON member as one symbol (the framer never looks inside one).
Whitespace == {" ", "\t", "\r", "\n"}
DataPrefix == <<"d", "a", "t", "a", ":">>

Members ==
  { [sym |-> "\"result\":\"hi\"", key |-> "result", val |-> "hi"],
    [sym |-> "\"error_code\":0", key |-> "error_code", val |-> 0],
    [sym |-> "\"error_code\":17", key |-> "error_code", val |-> 17],
    [sym |-> "\"error_msg\":\"quota\"", key |-> "error_msg", val |-> "quota"],
    [sym |-> "\"a\":1", key |-> "a", val |-> 1] }
MemberSyms == {m.sym : m \in Members}
MemberOf(sym) == CHOOSE m \in Members : m.sym = sym

\* str.strip()
RECURSIVE lstrip(_)
lstrip(t) == IF t # <<>> /\ Head(t) \in Whitespace THEN lstrip(Tail(t)) ELSE t
RECURSIVE rstrip(_)
rstrip(t) ==
  IF t # <<>> /\ t[Len(t)] \in Whitespace THEN rstrip(SubSeq(t, 1, Len(t) - 1)) ELSE t
strip(t) == rstrip(lstrip(t))

\* json.loads(text): the dict of an object `{` members `}` (a later member
\* of the same key wins); anything else raises JSONDecodeError
json_loads(text) ==
  LET t == strip(text)
      n == Len(t)
  IN IF /\ n >= 2
        /\ t[1] = "{"
        /\ t[n] = "}"
        /\ \A i \in 2..(n - 1) : t[i] \in MemberSyms
       THEN [ok |-> TRUE,
             value |-> [k \in {MemberOf(t[i]).key : i \in 2..(n - 1)} |->
                          LET last == CHOOSE i \in 2..(n - 1) :
                                        /\ MemberOf(t[i]).key = k
                                        /\ \A j \in (i + 1)..(n - 1) :
                                             MemberOf(t[j]).key # k
                          IN MemberOf(t[last]).val]]
       ELSE [ok |-> FALSE, value |-> EmptyDict]

\* `r.headers.get("Content-Type", "").startswith("text/event-stream")`
is_event_stream(r) == r.content_type # <<>> /\ r.content_type[1] = "text/event-stream"

EndsWith(data, suffix) ==
  /\ Len(data) >= Len(suffix)
  /\ SubSeq(data, Len(data) - Len(suffix) + 1, Len(data)) = suffix

\* `data.endswith((b"\r\r", b"\n\n", b"\r\n\r\n"))`
ends_frame(data) ==
  \/ EndsWith(data, <<"\r", "\r">>)
  \/ EndsWith(data, <<"\n", "\n">>)
  \/ EndsWith(data, <<"\r", "\n", "\r", "\n">>)

\* the buffer replaced by the chunk instead of extended by it
read_chunk_overwrite(data, chunk) ==
  IF EndsWith(chunk, <<"\r", "\r">>) \/ EndsWith(chunk, <<"\n", "\n">>)
       \/ EndsWith(chunk, <<"\r", "\n", "\r", "\n">>)
    THEN [frame |-> <<chunk>>, data |-> <<>>]
    ELSE [frame |-> <<>>, data |-> chunk]

\* one turn of the loop of read() (lines 236-239): the frame yielded, if any,
\* and the buffer afterwards
read_chunk(data, chunk) ==
  LET d == data \o chunk
  IN IF ends_frame(d) THEN [frame |-> <<d>>, data |-> <<>>]
     ELSE [frame |-> <<>>, data |-> d]

\* what is left in the buffer dropped at the end of the body
read_end_drops_residual(data) == [frame |-> <<>>, data |-> <<>>]

\* read() after its loop (lines 240-241)
read_end(data) ==
  IF data # <<>> THEN [frame |-> <<data>>, data |-> <<>>]
  ELSE [frame |-> <<>>, data |-> <<>>]

\* read(content) resumed until its next yield (lines 233-241): the frame it
\* yields (none when it ends), its buffer and what is left of the body
RECURSIVE read(_, _)
read(data, content) ==
  IF content = <<>>
    THEN read_end(data) @@ [content |-> <<>>]
    ELSE LET c == read_chunk(data, Head(content))
         IN IF c.frame # <<>> THEN c @@ [content |-> Tail(content)]
            ELSE read(c.data, Tail(content))

\* `line_decoded.startswith("data:")` and `line_decoded[5:].strip()`
is_data_line(line) == Len(line) >= 5 /\ SubSeq(line, 1, 5) = DataPrefix
event_data(line) == strip(SubSeq(line, 6, Len(line)))

\* the error-envelope check applied to every event of the stream
handle_frame_checks_envelope(line) ==
  IF ~is_data_line(line) THEN [kind |-> "skip", event |-> EmptyDict, error |-> NoError]
  ELSE LET j == json_loads(event_data(line))
       IN IF ~j.ok
            THEN [kind |-> "raise", event |-> EmptyDict,
                  error |-> Error("JSONDecodeError")]
          ELSE IF error_envelope(j.value).type # ""
            THEN [kind |-> "raise", event |-> EmptyDict,
                  error |-> error_envelope(j.value)]
          ELSE [kind |-> "yield", event |-> j.value, error |-> NoError]

\* the body of the loop of lines 243-249 for one frame: skip it, yield its
\* event, or raise
handle_frame(line) ==
  IF ~is_data_line(line) THEN [kind |-> "skip", event |-> EmptyDict, error |-> NoError]
  ELSE LET j == json_loads(event_data(line))
       IN IF j.ok THEN [kind |-> "yield", event |-> j.value, error |-> NoError]
          ELSE [kind |-> "raise", event |-> EmptyDict,
                error |-> Error("JSONDecodeError")]

\* the loop of lines 243-249 resumed until its next yield, its end or a raise
RECURSIVE next_event(_, _)
next_event(data, content) ==
  LET f == read(data, content)
  IN IF f.frame = <<>>
       THEN [kind |-> "end", event |-> EmptyDict, error |-> NoError, data |-> f.data,
             content |-> f.content]
     ELSE LET h == handle_frame(f.frame[1])
          IN IF h.kind = "skip" THEN next_event(f.data, f.content)
             ELSE h @@ [data |-> f.data, content |-> f.content]

\* the loop of lines 195-197 resumed: events holds the data of the events the
\* SSE decoder has still to hand out; each turn asks the decoder once, which
\* is counted in reads
next_sse_event(events) ==
  IF events = <<>>
    THEN [kind |-> "end", event |-> EmptyDict, error |-> NoError, content |-> <<>>]
    ELSE LET j == json_loads(Head(events))
         IN IF j.ok
              THEN [kind |-> "yield", event |-> j.value, error |-> NoError,
                    content |-> Tail(events)]
              ELSE [kind |-> "raise", event |-> EmptyDict,
                    error |-> Error("JSONDecodeError"), content |-> Tail(events)]

\* ---- stream bodies
JsonHi == <<"{", "\"result\":\"hi\"", "}">>
JsonErr == <<"{", "\"error_code\":17", "\"error_msg\":\"quota\"", "}">>
NotJson == <<"{", "\"a\":1">>
Frame(json) == DataPrefix \o <<" ">> \o json \o <<"\n", "\n">>

\* the data of the events an SSE decoder hands out
SseBodies == { <<>>, <<JsonHi>>, <<JsonHi, JsonErr>>, <<NotJson>>, <<JsonHi, NotJson>> }

\* the chunks the non-blocking transport delivers
ChunkBodies ==
  { <<>>,
    <<Frame(JsonHi)>>,
    <<Frame(JsonHi), Frame(JsonErr)>>,
    <<DataPrefix \o <<" ">>, JsonHi \o <<"\n">>, <<"\n">>, Frame(JsonHi)>>,
    <<Frame(NotJson)>>,
    <<Frame(JsonHi), Frame(NotJson)>>,
    <<<<"e", "v", "e", "n", "t", ":", "x", "\n", "\n">>, Frame(JsonHi)>>,
    <<DataPrefix \o JsonHi>> }

StreamResponses(bodies) ==
  JsonResponses
    \cup {[status |-> 200, content_type |-> <<"text/event-stream", ";charset=utf-8">>,
           body |-> <<>>, stream |-> b] : b \in bodies}

\* the request sent by the call itself, as a function that is no generator
\* would
completion_stream_eager ==
  /\ op.pc = "done"
  /\ \E args \in ChatArgs :
       op' = [NoOp EXCEPT !.name = "completion_stream", !.args = args,
                          !.pc = "created", !.net = <<"POST chat">>]
  /\ UNCHANGED <<tokenVars, call, task>>

\* completion_stream(...) called: a generator is made, none of its body runs
completion_stream ==
  /\ CanStart
  /\ \E args \in ChatArgs :
       op' = [StartOp("completion_stream", args) EXCEPT !.pc = "created"]
  /\ UNCHANGED <<tokenVars, call, task>>

\* the generator finished: returned, raised, or closed
Finished(o, outcome, value, error, conn) ==
  [o EXCEPT !.pc = "done", !.outcome = outcome, !.value = value, !.error = error,
            !.conn = conn, !.data = <<>>, !.content = <<>>]

\* next() on the generator of completion_stream that has not run yet: lines
\* 173-197 up to the first yield.  The response is not closed on any path; its
\* connection goes back to the pool only when the body has been read to its
\* end (r.json(), or the decoder reaching the end of the stream).
completion_stream_first ==
  /\ op.name = "completion_stream"
  /\ op.pc = "created"
  /\ \E g \in TokenResponses, r \in StreamResponses(SseBodies) :
       LET json == request_json(op.args.params, op.args.prompt, op.args.history,
                                TRUE)
           tk == get_token(g)
           called == [op EXCEPT !.requests = 1, !.grant = Asked(tk, g)]
           o == [called EXCEPT !.net = Append(tk.net, "POST chat"),
                               !.sent = <<[url |-> completions_url(op.args.model),
                                           access_token |-> tk.ret, json |-> json]>>,
                               !.resp = <<r>>]
       IN /\ TokenEffect(tk)
          /\ IF tk.raised # ""
               THEN op' = Finished([called EXCEPT !.net = tk.net], "raised", <<>>,
                                   Error(tk.raised), "none")
             ELSE IF raise_for_status(r)
               THEN op' = Finished(o, "raised", <<>>, Error("HTTPError"), "open")
             ELSE IF ~is_event_stream(r)
               THEN IF r.body = <<>>
                      THEN op' = Finished(o, "raised", <<>>, Error("JSONDecodeError"),
                                          "released")
                      ELSE LET e == error_envelope(r.body[1])
                           IN IF e.type # ""
                                THEN op' = Finished(o, "raised", <<>>, e, "released")
                                ELSE op' = Finished(o, "returned", <<r.body[1]>>,
                                                    NoError, "released")
             ELSE LET n == next_sse_event(r.stream)
                      asked == [o EXCEPT !.reads = 1]
                  IN IF n.kind = "end"
                       THEN op' = Finished(asked, "returned", <<>>, NoError, "released")
                     ELSE IF n.kind = "raise"
                       THEN op' = Finished(asked, "raised", <<>>, n.error, "open")
                     ELSE op' = [asked EXCEPT !.pc = "suspended", !.conn = "open",
                                              !.events = <<n.event>>,
                                              !.content = n.content]

\* next() on the generator suspended at line 197
completion_stream_next ==
  /\ op.name = "completion_stream"
  /\ op.pc = "suspended"
  /\ LET n == next_sse_event(op.content)
         asked == [op EXCEPT !.requests = @ + 1, !.reads = @ + 1]
     IN IF n.kind = "end"
          THEN op' = Finished(asked, "returned", <<>>, NoError, "released")
        ELSE IF n.kind = "raise"
          THEN op' = Finished(asked, "raised", <<>>, n.error, "open")
        ELSE op' = [asked EXCEPT !.events = Append(@, n.event),
                                 !.content = n.content]
  /\ UNCHANGED <<tokenVars, call, task>>

\* the consumer stops: close() raises GeneratorExit at the yield of line 197,
\* and no statement of the generator closes the response
completion_stream_close ==
  /\ op.name = "completion_stream"
  /\ op.pc \in {"created", "suspended"}
  /\ op' = Finished(op, "closed", <<>>, NoError, op.conn)
  /\ UNCHANGED <<tokenVars, call, task>>

\* acompletion_stream(...) called: an async generator is made
acompletion_stream ==
  /\ CanStart
  /\ \E args \in ChatArgs :
       op' = [StartOp("acompletion_stream", args) EXCEPT !.pc = "created"]
  /\ UNCHANGED <<tokenVars, call, task>>

\* the async generator resumed inside the two `async with` blocks (from line
\* 231 or from line 249): the loop of lines 243-249; leaving the blocks, by
\* the end of the loop or by a raise, releases the connection.  reads counts
\* the chunks taken from r.content at line 235, and one more for finding its
\* end when the loop ends; after line 231 the body has been read by r.json()
\* and r.content has nothing left to give
Resume(o) ==
  LET n == next_event(o.data, o.content)
      asked == [o EXCEPT !.reads = @ + Len(o.content) - Len(n.content)
                                     + (IF n.kind = "end" THEN 1 ELSE 0)]
  IN IF n.kind = "end"
       THEN Finished(asked, "returned", <<>>, NoError, "released")
     ELSE IF n.kind = "raise"
       THEN Finished(asked, "raised", <<>>, n.error, "released")
     ELSE [asked EXCEPT !.pc = "suspended", !.conn = "open",
                        !.events = Append(@, n.event), !.data = n.data,
                        !.content = n.content]

\* __anext__() on the async generator that has not run yet: lines 211-249 up
\* to the first yield
acompletion_stream_first ==
  /\ op.name = "acompletion_stream"
  /\ op.pc = "created"
  /\ \E g \in TokenResponses, r \in StreamResponses(ChunkBodies) :
       LET json == request_json(op.args.params, op.args.prompt, op.args.history,
                                TRUE)
           tk == get_token(g)
           called == [op EXCEPT !.requests = 1, !.grant = Asked(tk, g)]
           o == [called EXCEPT !.net = Append(tk.net, "POST chat"),
                               !.sent = <<[url |-> completions_url(op.args.model),
                                           access_token |-> tk.ret, json |-> json]>>,
                               !.resp = <<r>>, !.content = r.stream]
       IN /\ TokenEffect(tk)
          /\ IF tk.raised # ""
               THEN op' = Finished([called EXCEPT !.net = tk.net], "raised", <<>>,
                                   Error(tk.raised), "none")
             ELSE IF raise_for_status(r)
               THEN op' = Finished(o, "raised", <<>>, Error("HTTPError"), "released")
             ELSE IF ~is_event_stream(r)
               THEN IF r.body = <<>>
                      THEN op' = Finished(o, "raised", <<>>, Error("JSONDecodeError"),
                                          "released")
                      ELSE LET e == error_envelope(r.body[1])
                           IN IF e.type # ""
                                THEN op' = Finished(o, "raised", <<>>, e, "released")
                                ELSE op' = [o EXCEPT !.pc = "suspended",
                                                     !.conn = "open",
                                                     !.events = <<r.body[1]>>]
             ELSE op' = Resume(o)

\* __anext__() on the async generator suspended at line 231 or 249
acompletion_stream_next ==
  /\ op.name = "acompletion_stream"
  /\ op.pc = "suspended"
  /\ op' = Resume([op EXCEPT !.requests = @ + 1])
  /\ UNCHANGED <<tokenVars, call, task>>

\* the consumer stops: aclose() raises GeneratorExit at the yield, which
\* leaves the two `async with` blocks
acompletion_stream_close ==
  /\ op.name = "acompletion_stream"
  /\ op.pc \in {"created", "suspended"}
  /\ op' = Finished(op, "closed", <<>>, NoError,
                    IF op.pc = "created" THEN "none" ELSE "released")
  /\ UNCHANGED <<tokenVars, call, task>>

\* ---- the reframing loop fed one chunk at a time
\* the transport delivers the next chunk, of any length, of the body that is
\* left (no two empty chunks in a row); the loops of read() and of lines
\* 243-249 take one turn
frame_chunk ==
  /\ op.name = "read"
  /\ op.pc = "suspended"
  /\ \E k \in 0..Len(op.content[1]) :
       LET rest == op.content[1]
           chunk == SubSeq(rest, 1, k)
           c == read_chunk(op.data, chunk)
           o == [op EXCEPT !.chunks = IF @ < MaxChunksCounted THEN @ + 1 ELSE @,
                           !.empty = (k = 0), !.data = c.data,
                           !.content = <<SubSeq(rest, k + 1, Len(rest))>>,
                           !.frames = @ \o c.frame]
       IN /\ k = 0 => ~op.empty
          /\ IF c.frame = <<>>
               THEN op' = o
               ELSE LET h == handle_frame(c.frame[1])
                    IN IF h.kind = "raise"
                         THEN op' = Finished(o, "raised", <<>>, h.error, "released")
                       ELSE IF h.kind = "yield"
                         THEN op' = [o EXCEPT !.events = Append(@, h.event)]
                       ELSE op' = o
  /\ UNCHANGED <<tokenVars, call, task>>

\* the transport closes the body: read() leaves its loop
frame_eof ==
  /\ op.name = "read"
  /\ op.pc = "suspended"
  /\ op.content[1] = <<>>
  /\ LET c == read_end(op.data)
         o == [op EXCEPT !.frames = @ \o c.frame]
     IN IF c.frame = <<>>
          THEN op' = Finished(o, "returned", <<>>, NoError, "released")
          ELSE LET h == handle_frame(c.frame[1])
               IN IF h.kind = "raise"
                    THEN op' = Finished(o, "raised", <<>>, h.error, "released")
                  ELSE IF h.kind = "yield"
                    THEN op' = Finished([o EXCEPT !.events = Append(@, h.event)],
                                        "returned", <<>>, NoError, "released")
                  ELSE op' = Finished(o, "returned", <<>>, NoError, "released")
  /\ UNCHANGED <<tokenVars, call, task>>

\* construct_message(prompt, history) applied to the arguments drawn initially
construct ==
  /\ op.name = "construct_message"
  /\ op.pc = "created"
  /\ op' = [op EXCEPT !.pc = "done", !.outcome = "returned",
                       !.value = <<construct_message(op.args.prompt, op.args.history)>>]
  /\ UNCHANGED <<tokenVars, call, task>>

Init ==
  /\ access_token = ""
  /\ access_token_expires = 0
  /\ clock = 1
  /\ grant_calls = 0
  /\ call = NoCall
  /\ task = [t \in Tasks |-> Idle]
  /\ op = NoOp

NextToken ==
  \/ \E t \in Tasks : grant_token(t)
  \/ \E t \in Tasks : async_grant_token_call(t)
  \/ \E t \in Tasks : async_grant_token_resume(t)
  \/ Tick

SpecToken == Init /\ [][NextToken]_vars

\* non-blocking get-token callers only
NextRace ==
  \/ \E t \in Tasks : async_grant_token_call(t)
  \/ \E t \in Tasks : async_grant_token_resume(t)
  \/ Tick

SpecRace == Init /\ [][NextRace]_vars

Next ==
  \/ completion
  \/ acompletion
  \/ embed_short
  \/ call_completions_url
  \/ completion_stream
  \/ completion_stream_first
  \/ completion_stream_next
  \/ completion_stream_close
  \/ acompletion_stream
  \/ acompletion_stream_first
  \/ acompletion_stream_next
  \/ acompletion_stream_close
  \/ Tick

Spec == Init /\ [][Next]_vars

NextEmbed == embed

SpecEmbed == Init /\ [][NextEmbed]_vars

\* construct_message on every history of at most MaxHist pairs
HumanTexts == {"h1", "h2"}
AiTexts == {"a1", "a2"}
RECURSIVE HistoriesUpTo(_)
HistoriesUpTo(n) ==
  IF n = 0 THEN {<<>>}
  ELSE LET shorter == HistoriesUpTo(n - 1)
       IN shorter \cup {Append(h, <<x, y>>) : h \in shorter, x \in HumanTexts,
                                               y \in AiTexts}

InitMessages ==
  /\ access_token = ""
  /\ access_token_expires = 0
  /\ clock = 1
  /\ grant_calls = 0
  /\ call = NoCall
  /\ task = [t \in Tasks |-> Idle]
  /\ \E prompt \in {"p1", "p2"}, history \in HistoriesUpTo(MaxHist) :
       op = [NoOp EXCEPT !.name = "construct_message", !.pc = "created",
                         !.args = [prompt |-> prompt, history |-> history]]

NextMessages == construct

\* ---- one frame, in every chunking
\* JSON object texts and the values they denote
JsonObjects ==
  { [text |-> <<"{", "\"a\":1", "}">>, value |-> [a |-> 1]],
    [text |-> <<"{", "\"error_code\":17", "\"error_msg\":\"quota\"", "}">>,
     value |-> [error_code |-> 17, error_msg |-> "quota"]] }
Terminators == { <<"\r", "\r">>, <<"\n", "\n">>, <<"\r", "\n", "\r", "\n">> }
\* what may stand between `data:` and the object
Gaps == { <<>>, <<" ">> }

InitFrame ==
  /\ access_token = ""
  /\ access_token_expires = 0
  /\ clock = 1
  /\ grant_calls = 0
  /\ call = NoCall
  /\ task = [t \in Tasks |-> Idle]
  /\ \E j \in JsonObjects, gap \in Gaps, term \in Terminators :
       op = [NoOp EXCEPT !.name = "read", !.pc = "suspended", !.conn = "open",
                         !.args = [json |-> j, terminator |-> term],
                         !.content = <<DataPrefix \o gap \o j.text \o term>>]

NextFrame ==
  \/ frame_chunk
  \/ frame_eof

SpecFrame == InitFrame /\ [][NextFrame]_vars

\* ---- bodies of several frames, in every chunking
\* a field line other than data, as one symbol and its line end
EventLine == <<"event:x", "\n">>
\* the frames a body is made of: the text, and the events an event-stream
\* reader takes from it
FrameKinds ==
  { [text |-> DataPrefix \o <<" ">> \o JsonHi \o <<"\n", "\n">>,
     events |-> <<[result |-> "hi"]>>],
    [text |-> DataPrefix \o JsonErr \o <<"\r", "\n", "\r", "\n">>,
     events |-> <<[error_code |-> 17, error_msg |-> "quota"]>>],
    [text |-> EventLine \o DataPrefix \o JsonHi \o <<"\n", "\n">>,
     events |-> <<[result |-> "hi"]>>],
    [text |-> EventLine \o <<"\n">>, events |-> <<>>] }
\* what a body may end with when the transport closes it early or the
\* provider leaves the last terminator out
Residuals ==
  { [text |-> <<>>, events |-> <<>>],
    [text |-> DataPrefix \o JsonHi \o <<"\n">>, events |-> <<[result |-> "hi"]>>] }

RECURSIVE FrameSeqs(_)
FrameSeqs(n) ==
  IF n = 0 THEN {<<>>}
  ELSE LET shorter == FrameSeqs(n - 1)
       IN shorter \cup {Append(b, f) : b \in shorter, f \in FrameKinds}

RECURSIVE Concat(_)
Concat(seqs) == IF seqs = <<>> THEN <<>> ELSE Head(seqs) \o Concat(Tail(seqs))

\* the bytes of a body
BodyOf(frames, residual) ==
  Concat([i \in 1..Len(frames) |-> frames[i].text]) \o residual.text

InitFrames ==
  /\ access_token = ""
  /\ access_token_expires = 0
  /\ clock = 1
  /\ grant_calls = 0
  /\ call = NoCall
  /\ task = [t \in Tasks |-> Idle]
  /\ \E b \in FrameSeqs(MaxFrames) \ {<<>>}, residual \in Residuals :
       op = [NoOp EXCEPT !.name = "read", !.pc = "suspended", !.conn = "open",
                         !.args = [frames |-> b, residual |-> residual],
                         !.content = <<BodyOf(b, residual)>>]

SpecFrames == InitFrames /\ [][NextFrame]_vars

SpecMessages == InitMessages /\ [][NextMessages]_vars

\* ------------------------------------------------------------ token claims
\* the AccessToken invariant of the data model: valid iff non-empty and
\* current_time < expires_at
ValidAt(cache, now) == cache[1] # "" /\ now < cache[2]

\* C1: two get-token calls made one after the other, the cached token being
\* valid at the second and the first having returned a token (from the cache
\* or from its own refresh), the cache at the second call being what the
\* first left: the two return the same value, the second sends no grant
\* request and leaves the cache alone, and together they send at most one
\* grant request.
C1_TokenReuse ==
  ( /\ call.op # "none"
    /\ call.prev.op # "none"
    /\ call.prev.raised = ""
    /\ call.prev.cacheAtReturn = call.cacheAtCall
    /\ ValidAt(call.cacheAtCall, call.now_timestamp) )
  => /\ call.ret = call.prev.ret
     /\ call.raised = ""
     /\ call.grants = 0
     /\ call.prev.grants + call.grants <= 1
     /\ call.cacheAtReturn = call.cacheAtCall

\* both calls found the token valid and sent nothing
C1_Witness ==
  /\ call.op = "async_grant_token"
  /\ call.prev.op = "grant_token"
  /\ call.prev.raised = ""
  /\ call.prev.cacheAtReturn = call.cacheAtCall
  /\ ValidAt(call.cacheAtCall, call.now_timestamp)
  /\ call.prev.grants = 0
  /\ call.ret \in Tokens

\* C2: a get-token call made when no valid token is cached sends exactly one
\* grant request and, when the response is well formed, leaves the cache
\* holding the response's access_token and now_timestamp + expires_in and
\* returns that access_token.
C2_TokenRefresh ==
  ( /\ call.op # "none"
    /\ ~ValidAt(call.cacheAtCall, call.now_timestamp) )
  => /\ call.grants = 1
     /\ call.resp # NoResponse
     /\ WellFormed(call.resp) =>
          /\ call.cacheAtReturn = <<call.resp.body.access_token,
                                    call.now_timestamp + call.resp.body.expires_in>>
          /\ call.ret = call.resp.body.access_token
          /\ call.raised = ""

\* an expired, non-empty token was replaced by a different one
C2_Witness ==
  /\ call.op # "none"
  /\ call.cacheAtCall[1] \in Tokens
  /\ call.now_timestamp >= call.cacheAtCall[2]
  /\ call.cacheAtCall[2] > 0
  /\ WellFormed(call.resp)
  /\ call.ret \in Tokens \ {call.cacheAtCall[1]}
  /\ access_token = call.ret

\* C3: every step that changes the cached value or the cached expiry is the
\* return of a get-token call that succeeded, and leaves both fields holding
\* what that call's grant response gave.
C3_NeverPartiallyUpdated ==
  [][ <<access_token, access_token_expires>>' # <<access_token, access_token_expires>>
        => /\ call'.raised = ""
           /\ WellFormed(call'.resp)
           /\ access_token' = call'.resp.body.access_token
           /\ access_token_expires' =
                call'.now_timestamp + call'.resp.body.expires_in ]_vars

\* ------------------------------------------------------------ embed claims
TooLong(args) == \E i \in 1..Len(args.texts) : Len(args.texts[i]) > 384
Rejected(args) ==
  \/ Len(args.texts) > 16
  \/ args.truncate \notin {"START", "END"} /\ TooLong(args)

\* C8: an embed call with more than 16 texts, or with no truncate mode and a
\* text of more than 384 characters anywhere in the batch, raises ValueError
\* having sent no request: no grant GET, no embeddings POST, and the cached
\* token and expiry are what they were.
C8_ValidationFailsFast ==
  [][ (op'.name = "embed" /\ Rejected(op'.args))
        => /\ op'.outcome = "raised"
           /\ op'.error.type = "ValueError"
           /\ op'.net = <<>>
           /\ op'.sent = <<>>
           /\ UNCHANGED <<access_token, access_token_expires, grant_calls>> ]_vars

\* a 16-text batch whose last text is too long is rejected while a token is
\* cached
C8_Witness ==
  /\ op.name = "embed"
  /\ Len(op.args.texts) = 16
  /\ Len(op.args.texts[16]) > 384
  /\ op.args.truncate = "None"
  /\ op.error.type = "ValueError"
  /\ op.net = <<>>
  /\ access_token \in Tokens

Min(a, b) == IF a <= b THEN a ELSE b

\* what the payload holds for the text t under the truncate mode
Truncated(mode, t, sent) ==
  IF mode = "START"
    THEN /\ Len(sent) = Min(Len(t), 384)
         /\ \A k \in 1..Len(sent) : sent[k] = t[Len(t) - Len(sent) + k]
  ELSE IF mode = "END"
    THEN /\ Len(sent) = Min(Len(t), 384)
         /\ \A k \in 1..Len(sent) : sent[k] = t[k]
  ELSE sent = t

\* C9: a posted payload holds, in order, one string per text: under START
\* the last min(len, 384) characters, under END the first min(len, 384),
\* otherwise the text itself, none longer than 384; with any other mode a
\* text longer than 384 makes the call raise ValueError, and a batch that
\* passes validation never does.
C9_Truncation ==
  op.name = "embed" =>
    /\ op.sent # <<>> =>
         LET input == op.sent[1].json.input
         IN /\ Len(input) = Len(op.args.texts)
            /\ \A i \in 1..Len(input) :
                 /\ Len(input[i]) <= 384
                 /\ Truncated(op.args.truncate, op.args.texts[i], input[i])
    /\ (op.args.truncate \notin {"START", "END"} /\ TooLong(op.args))
         => (op.error.type = "ValueError" /\ op.sent = <<>>)
    /\ ~Rejected(op.args) => op.error.type # "ValueError"
    /\ (~Rejected(op.args) /\ op.error.type \notin {"HTTPError", "KeyError"})
         => op.sent # <<>>

\* a 400-character text was posted as its last 384 characters
C9_Witness ==
  /\ op.name = "embed"
  /\ op.args.truncate = "START"
  /\ Len(op.args.texts) = 1
  /\ Len(op.args.texts[1]) = 400
  /\ op.sent # <<>>
  /\ Len(op.sent[1].json.input[1]) = 384
  /\ op.sent[1].json.input[1][1] = op.args.texts[1][17]

\* --------------------------------------------------- construct_message claim
\* C10: for a history of n pairs and a prompt p, construct_message returns
\* 2n+1 messages: the i-th pair gives the user message at position 2i-1 and
\* the assistant message at position 2i (counting from 1), and the last
\* message is the user message carrying p.
C10_ConstructMessage ==
  (op.name = "construct_message" /\ op.pc = "done") =>
    LET m == op.value[1]
        h == op.args.history
        n == Len(h)
    IN /\ Len(m) = 2 * n + 1
       /\ \A i \in 1..n :
            /\ m[2 * i - 1] = [role |-> "user", content |-> h[i][1]]
            /\ m[2 * i] = [role |-> "assistant", content |-> h[i][2]]
       /\ m[2 * n + 1] = [role |-> "user", content |-> op.args.prompt]

\* a history of two different pairs has been turned into five messages
C10_Witness ==
  /\ op.name = "construct_message"
  /\ op.pc = "done"
  /\ Len(op.args.history) = 2
  /\ op.args.history[1] # op.args.history[2]
  /\ Len(op.value[1]) = 5

\* ----------------------------------------------------------- response claims
StreamOps == {"completion_stream", "acompletion_stream"}

\* the operation got a 2xx response that it parsed as one JSON envelope: any
\* response to completion, acompletion and embed, and the response without
\* the event-stream content type to the two streaming operations
SingleEnvelope ==
  /\ op.name \in {"completion", "acompletion", "embed"} \cup StreamOps
  /\ op.resp # <<>>
  /\ op.resp[1].status < 400
  /\ op.resp[1].body # <<>>
  /\ op.name \in StreamOps => op.resp[1].content_type[1] # "text/event-stream"

Envelope == op.resp[1].body[1]
ErrorCode == IF "error_code" \in DOMAIN Envelope THEN Envelope.error_code ELSE 0

\* C4: an envelope with error_code # 0 makes the operation raise an exception
\* carrying the code and the provider's message (or "Unknown error" when the
\* envelope has none), nothing being returned or yielded; an envelope with
\* error_code 0 or absent is handed over unchanged: returned by completion,
\* acompletion and embed, yielded by acompletion_stream, and the return value
\* of the generator of completion_stream.
C4_ErrorEnvelope ==
  SingleEnvelope =>
    IF ErrorCode # 0
      THEN /\ op.pc = "done"
           /\ op.outcome = "raised"
           /\ op.error = [type |-> "Exception", error_code |-> ErrorCode,
                          error_msg |-> IF "error_msg" \in DOMAIN Envelope
                                          THEN Envelope.error_msg
                                          ELSE "Unknown error"]
           /\ op.value = <<>>
           /\ op.events = <<>>
      ELSE /\ op.outcome # "raised"
           /\ IF op.name = "acompletion_stream"
                THEN op.events = <<Envelope>> /\ op.value = <<>>
                ELSE /\ op.pc = "done"
                     /\ op.outcome = "returned"
                     /\ op.value = <<Envelope>>

\* the fallback of completion_stream raised the provider's error 17 "quota"
C4_Witness ==
  /\ SingleEnvelope
  /\ op.name = "completion_stream"
  /\ op.outcome = "raised"
  /\ op.error = [type |-> "Exception", error_code |-> 17, error_msg |-> "quota"]

\* C5: a streaming request answered 2xx without the event-stream content
\* type, the body a JSON envelope with error_code 0 or absent: once the
\* sequence has ended, the consumer has received exactly one event, that
\* envelope (both streaming operations).
C5_ContentTypeFallback ==
  ( /\ SingleEnvelope
    /\ op.name \in StreamOps
    /\ ErrorCode = 0
    /\ op.pc = "done"
    /\ op.outcome # "closed" )
  => /\ op.outcome = "returned"
     /\ op.events = <<Envelope>>

\* C6: a body of one frame, `data:` and one JSON object and one terminator,
\* delivered in any chunking: when the body is closed the framer has yielded
\* exactly one event, the value of the object, and at no time more than one.
C6_SingleFrame ==
  op.name = "read" =>
    /\ Len(op.events) <= 1
    /\ op.events # <<>> => op.events = <<op.args.json.value>>
    /\ op.pc = "done" => (op.outcome = "returned" /\ op.events # <<>>)

\* the frame came in at least four chunks, its terminator \r\n\r\n
C6_Witness ==
  /\ op.name = "read"
  /\ op.pc = "done"
  /\ op.chunks >= 4
  /\ op.args.terminator = <<"\r", "\n", "\r", "\n">>
  /\ op.events = <<[a |-> 1]>>

\* C7: when a streaming operation whose response was accepted as an event
\* stream is over (the body ended, the consumer stopped early, or a failure
\* was raised mid-stream), the connection is not left open.
C7_ConnectionReleased ==
  ( /\ op.name \in StreamOps
    /\ op.pc = "done"
    /\ op.resp # <<>>
    /\ op.resp[1].status < 400
    /\ op.resp[1].content_type # <<>>
    /\ op.resp[1].content_type[1] = "text/event-stream" )
  => op.conn # "open"
\* ------------------------------------------------------------ request claims
ChatOps == {"completion", "acompletion"} \cup StreamOps

\* the messages of a prompt and a history, position by position
ExpectedMessages(prompt, history) ==
  [i \in 1..(2 * Len(history) + 1) |->
     IF i = 2 * Len(history) + 1 THEN [role |-> "user", content |-> prompt]
     ELSE IF i % 2 = 1 THEN [role |-> "user", content |-> history[(i + 1) \div 2][1]]
     ELSE [role |-> "assistant", content |-> history[i \div 2][2]]]

\* C11: the JSON body of every completion POST holds under `messages` the
\* list built from prompt and history and under `stream` false for
\* completion / acompletion and true for the two streaming operations,
\* whatever the caller put under those keys; every other key of the caller
\* is sent with the caller's value, and no other key is sent.
C11_SystemFieldsWin ==
  (op.name \in ChatOps /\ op.sent # <<>>) =>
    LET json == op.sent[1].json
        params == op.args.params
    IN /\ DOMAIN json = DOMAIN params \cup {"messages", "stream"}
       /\ json.messages = ExpectedMessages(op.args.prompt, op.args.history)
       /\ json.stream = (op.name \in StreamOps)
       /\ \A k \in DOMAIN params \ {"messages", "stream"} : json[k] = params[k]

\* completion posted stream false and the built messages although the caller
\* passed stream and messages of their own; a streaming call posted stream
\* true over the caller's false
C11_Witness ==
  /\ op.name = "acompletion_stream"
  /\ op.sent # <<>>
  /\ {"messages", "stream"} \subseteq DOMAIN op.args.params
  /\ op.args.params.stream = FALSE
  /\ op.sent[1].json.stream = TRUE
  /\ Len(op.sent[1].json.messages) = 3
  /\ op.sent[1].json.top_p = 2

\* the endpoint segment of a model name
ExpectedEndpoint(model) ==
  CASE model = "eb-instant" -> "eb-instant"
    [] model = "ernie-bot-turbo" -> "eb-instant"
    [] model = "wenxin" -> "completions"
    [] model = "ernie-bot" -> "completions"
    [] OTHER -> model

\* C12: every call of completions_url returns the chat URL with the segment
\* eb-instant for "eb-instant" and "ernie-bot-turbo", completions for
\* "wenxin" and "ernie-bot", and the model name itself for any other name;
\* the call raises nothing, sends no request and leaves the cached token,
\* its expiry and the number of grant requests as they were.
C12_EndpointResolution ==
  [][ (op'.name = "completions_url" /\ op' # op)
        => /\ op'.outcome = "returned"
           /\ op'.error = NoError
           /\ op'.value = <<[url |-> "WENXIN_CHAT_URL",
                              endpoint |-> ExpectedEndpoint(op'.args.model)]>>
           /\ op'.net = <<>>
           /\ op'.sent = <<>>
           /\ UNCHANGED <<access_token, access_token_expires, grant_calls>> ]_vars

\* "ernie-bot-turbo" was resolved to eb-instant on a client holding a token
C12_Witness ==
  /\ op.name = "completions_url"
  /\ op.args.model = "ernie-bot-turbo"
  /\ op.value = <<[url |-> "WENXIN_CHAT_URL", endpoint |-> "eb-instant"]>>
  /\ access_token \in Tokens
  /\ grant_calls > 0

\* -------------------------------------------------------------- race claim
\* the tasks suspended in async_grant_token with their grant request sent
InFlight == {t \in Tasks : task[t].pc = "await"}

\* C13: among non-blocking get-token callers, every caller in flight has
\* seen no valid token and has sent a grant request of its own, so that two
\* may be in flight at once; and a caller that resumes to find the cache
\* changed since its check (another caller finished meanwhile) had seen no
\* valid token, is one of at least two grant requests sent, and with a
\* well-formed response overwrites the cache: its token and its
\* now_timestamp + expires_in are what is left cached.
C13_RefreshRace ==
  /\ Cardinality(InFlight) <= grant_calls
  /\ \A t \in InFlight : ~ValidAt(task[t].cacheAtCall, task[t].now_timestamp)
  /\ ( /\ call.op = "async_grant_token"
       /\ call.grants = 1
       /\ call.cacheAtStore # call.cacheAtCall )
     => /\ ~ValidAt(call.cacheAtCall, call.now_timestamp)
        /\ grant_calls >= 2
        /\ WellFormed(call.resp) =>
             /\ call.raised = ""
             /\ <<access_token, access_token_expires>> =
                  <<call.resp.body.access_token,
                    call.now_timestamp + call.resp.body.expires_in>>

\* two callers saw the absent token, two grant requests were sent for it,
\* the first to finish cached a valid token and the second replaced it by
\* its own
C13_Witness ==
  /\ InFlight = {}
  /\ grant_calls = 2
  /\ call.op = "async_grant_token"
  /\ call.grants = 1
  /\ call.cacheAtCall = <<"", 0>>
  /\ call.prev = NoSummary
  /\ call.cacheAtStore[1] \in Tokens
  /\ ValidAt(call.cacheAtStore, call.now_timestamp)
  /\ WellFormed(call.resp)
  /\ access_token = call.resp.body.access_token
  /\ access_token # call.cacheAtStore[1]
  /\ access_token_expires # call.cacheAtStore[2]

\* ----------------------------------------------------------- framing claims
\* a body of several frames is being reframed
Reframing == op.name = "read" /\ "frames" \in DOMAIN op.args

\* every frame of the body is one `data:` line and its terminator, and the
\* body ends with the last terminator
DataFramesOnly ==
  /\ op.args.residual.text = <<>>
  /\ \A i \in 1..Len(op.args.frames) :
       /\ Len(op.args.frames[i].text) >= 5
       /\ SubSeq(op.args.frames[i].text, 1, 5) = DataPrefix

\* C14: a body of k frames, each a data line ended by a terminator, in any
\* chunking: every frame read() emits is the next frame of the body, whole
\* and alone, and when the body is closed k events have been yielded, the
\* i-th being the JSON value of the i-th frame.
C14_MultiFrame ==
  (Reframing /\ DataFramesOnly) =>
    /\ Len(op.frames) <= Len(op.args.frames)
    /\ \A i \in 1..Len(op.frames) : op.frames[i] = op.args.frames[i].text
    /\ op.pc = "done" =>
         /\ op.outcome = "returned"
         /\ Len(op.events) = Len(op.args.frames)
         /\ \A i \in 1..Len(op.events) : <<op.events[i]>> = op.args.frames[i].events

\* C15: a body of one terminated frame, in any chunking: when the body is
\* closed the events yielded are the JSON values of the frame's `data:`
\* lines, its other lines being skipped: one event for an `event:` line
\* followed by a `data:` line, none for a frame without a `data:` line.
C15_DataLineFiltering ==
  ( /\ Reframing
    /\ Len(op.args.frames) = 1
    /\ op.args.residual.text = <<>>
    /\ op.pc = "done" )
  => /\ op.outcome = "returned"
     /\ op.events = op.args.frames[1].events

\* C20: at any time the frames emitted so far, the buffer and the part of
\* the body not yet delivered make up the body, byte for byte; no emitted
\* frame is empty; and when the body has been closed and read() has ended,
\* the frames emitted make up the whole body, what was left in the buffer
\* being the last of them.
C20_ByteConservation ==
  Reframing =>
    LET body == BodyOf(op.args.frames, op.args.residual)
    IN /\ \A i \in 1..Len(op.frames) : op.frames[i] # <<>>
       /\ op.pc = "suspended" =>
            Concat(op.frames) \o op.data \o op.content[1] = body
       /\ (op.pc = "done" /\ op.outcome = "returned") => Concat(op.frames) = body

\* a body ending without a terminator came in at least three chunks and its
\* last bytes were emitted as a frame of their own after a terminated one
C20_Witness ==
  /\ Reframing
  /\ op.pc = "done"
  /\ op.outcome = "returned"
  /\ op.chunks >= 3
  /\ op.args.residual.text # <<>>
  /\ Len(op.frames) = 2
  /\ op.frames[2] = op.args.residual.text
  /\ ~ends_frame(op.frames[2])
  /\ Len(op.events) = 2

\* --------------------------------------------------------- streaming claims
\* the response to a streaming operation was accepted as an event stream
EventStreamAccepted ==
  /\ op.name \in StreamOps
  /\ op.resp # <<>>
  /\ op.resp[1].status < 400
  /\ op.resp[1].content_type # <<>>
  /\ op.resp[1].content_type[1] = "text/event-stream"

\* the provider's events, as the decoder (blocking mode) or the transport
\* (non-blocking mode, one whole frame per chunk) hands them over
EventItems ==
  {JsonHi, JsonErr, NotJson, Frame(JsonHi), Frame(JsonErr), Frame(NotJson)}
ExpectedEvent(item) ==
  IF item \in {JsonHi, Frame(JsonHi)} THEN [result |-> "hi"]
  ELSE IF item \in {JsonErr, Frame(JsonErr)}
    THEN [error_code |-> 17, error_msg |-> "quota"]
  ELSE EmptyDict

\* C16: on a response accepted as an event stream no provider failure is
\* ever raised; and when every item of the stream is one event, the events
\* yielded are the JSON values of the items in order, an event with
\* error_code 17 like any other, all of them once the sequence has ended
\* by itself, provided every item is JSON.
C16_InStreamPassThrough ==
  EventStreamAccepted =>
    LET stream == op.resp[1].stream
    IN /\ op.error.type # "Exception"
       /\ (\A i \in 1..Len(stream) : stream[i] \in EventItems) =>
            /\ Len(op.events) <= Len(stream)
            /\ \A i \in 1..Len(op.events) : op.events[i] = ExpectedEvent(stream[i])
            /\ ( /\ op.pc = "done"
                 /\ op.outcome # "closed"
                 /\ \A i \in 1..Len(stream) : stream[i] \notin {NotJson, Frame(NotJson)} )
               => /\ op.outcome = "returned"
                  /\ Len(op.events) = Len(stream)

\* the non-blocking framer has yielded the provider's error 17 as the second
\* event of a stream and ended normally
C16_Witness ==
  /\ EventStreamAccepted
  /\ op.name = "acompletion_stream"
  /\ op.pc = "done"
  /\ op.outcome = "returned"
  /\ op.events = <<[result |-> "hi"], [error_code |-> 17, error_msg |-> "quota"]>>

\* C17: in a step of a streaming operation in which a grant request or the
\* POST is sent, or the body is asked for more, the consumer has requested
\* the next event; and as long as the consumer has requested none, nothing
\* has been sent or read.
C17_PullBased ==
  [][ op'.name \in StreamOps =>
        LET fresh == op.pc = "done" /\ op' # op
            net == IF fresh THEN <<>> ELSE op.net
            reads == IF fresh THEN 0 ELSE op.reads
            requests == IF fresh THEN 0 ELSE op.requests
        IN /\ (op'.net # net \/ op'.reads # reads \/ grant_calls' # grant_calls)
                => op'.requests = requests + 1
           /\ op'.requests = 0
                => (op'.net = <<>> /\ op'.sent = <<>> /\ op'.reads = 0
                      /\ op'.events = <<>>) ]_vars

\* one event has been delivered on one request, more of the body is waiting
\* and none of it has been read, time having passed since the token grant
C17_Witness ==
  /\ op.name = "acompletion_stream"
  /\ op.pc = "suspended"
  /\ op.requests = 1
  /\ op.reads = 1
  /\ Len(op.events) = 1
  /\ op.content # <<>>
  /\ op.grant # <<>>
  /\ clock = MaxTime

\* C18: after acompletion_stream has taken the fallback (a 2xx response
\* without the event-stream content type, its envelope passing the error
\* check), the body is never asked for a chunk and at most the one event,
\* the envelope, is yielded.
C18_FallbackClosesSequence ==
  ( /\ op.name = "acompletion_stream"
    /\ SingleEnvelope
    /\ ErrorCode = 0 )
  => /\ op.reads = 0
     /\ Len(op.events) <= 1
     /\ op.events # <<>> => op.events = <<Envelope>>

\* what a failed grant leaves of the operation in whose step it was asked
GrantFailed ==
  /\ op'.pc = "done"
  /\ op'.outcome = "raised"
  /\ op'.error.type \in {"HTTPError", "KeyError", "JSONDecodeError"}
  /\ grant_calls' = grant_calls + 1
  /\ op'.net = <<"GET token">>
  /\ op'.sent = <<>>
  /\ op'.resp = <<>>
  /\ op'.value = <<>>
  /\ op'.events = <<>>
  /\ UNCHANGED <<access_token, access_token_expires>>

====
